---- MODULE Spec2Model ----
(***************************************************************************)
(* Model of the Core ML conversion validation script                       *)
(* (model-conversion/test_models.py) and of the mean pooling shared by the *)
(* conversion scripts (convert_embedding.py, convert_embedding_simple.py). *)
(*                                                                         *)
(* Floating-point embedding components are modelled as fixed-point numbers *)
(* counted in units of 1e-6, with NaN as a separate value.  The pooling    *)
(* divisor is modelled as a pair <<whole, nano>> (whole + nano * 1e-9).    *)
(***************************************************************************)
EXTENDS Integers, Sequences, FiniteSets, TLC

(***************************************************************************)
(* Program constants                                                       *)
(***************************************************************************)
\* len(test_sentences)
NumSentences == 3
\* tolerance = 1e-5, in units of 1e-6
Tolerance == 10
\* torch.clamp(..., min=1e-9), the nano part of <<0, ClampMinNano>>
ClampMinNano == 1
\* size of the tokenizer's vocabulary (token ids are 0 .. VocabSize - 1)
VocabSize == 30522

(***************************************************************************)
(* Bounds of the model                                                     *)
(***************************************************************************)
\* length of a tokenized sequence (max_seq_length, 128 in the scripts)
MaxSeq == 2
\* length of the reference embedding (384 for all-MiniLM-L6-v2)
HiddenLen == 2

(***************************************************************************)
(* Floating-point values                                                   *)
(***************************************************************************)
F(x) == [nan |-> FALSE, v |-> x]
NaN == [nan |-> TRUE, v |-> 0]

None == <<>>
Some(x) == <<x>>

\* a - b followed by np.abs, element-wise
AbsDiff(a, b) ==
    IF a.nan \/ b.nan THEN NaN
    ELSE F(IF a.v >= b.v THEN a.v - b.v ELSE b.v - a.v)

\* numpy broadcasting of two one-axis shapes
Broadcastable(m, n) == m = n \/ m = 1 \/ n = 1

BroadcastLen(m, n) == IF m >= n THEN m ELSE n

At(vec, k) == IF Len(vec) = 1 THEN vec[1] ELSE vec[k]

\* diff = np.abs(hf_embedding - coreml_embedding)
Diff(hf, cm) ==
    [k \in 1..BroadcastLen(Len(hf), Len(cm)) |-> AbsDiff(At(hf, k), At(cm, k))]

\* np.max: NaN propagates, otherwise the largest element
NpMax(d) ==
    IF \E k \in 1..Len(d) : d[k].nan THEN NaN
    ELSE F(CHOOSE x \in {d[k].v : k \in 1..Len(d)} :
               \A y \in {d[k].v : k \in 1..Len(d)} : y <= x)

\* max_diff < tolerance (a comparison with NaN is False)
PassedInverted(m, tol) == m.nan \/ m.v >= tol
PassedNonStrict(m, tol) == ~m.nan /\ m.v <= tol
Passed(m, tol) == ~m.nan /\ m.v < tol

\* largest value of numpy's int32
Int32Max == 2147483647

\* .numpy().astype(np.int32) of an int64 value: two's complement wrap-around
AsInt8(x) == ((x + 128) % 256) - 128
AsInt32(x) ==
    IF x > Int32Max THEN x - Int32Max - Int32Max - 2
    ELSE IF x < -Int32Max - 1 THEN x + Int32Max + Int32Max + 2
    ELSE x

(***************************************************************************)
(* Inputs: what the opaque collaborators (tokenizer, the two pipelines)    *)
(* may return                                                              *)
(***************************************************************************)
HfValues == {F(0), F(1), NaN}
CmValues == {F(0), F(1), F(Tolerance + 1), NaN}

\* the reference model always returns HiddenLen components
HfOutputs == [1..HiddenLen -> HfValues]

\* the artifact may return the right length, a single component (which
\* numpy broadcasts) or a wrong length
CoremlOutputs ==
    [1..HiddenLen -> CmValues] \cup [1..1 -> CmValues]
        \cup {[k \in 1..(HiddenLen + 1) |-> F(0)]}

RealIds == {1, VocabSize - 1}

\* padding='max_length': r real tokens, then padding (id 0, mask 0)
Tokenizations ==
    {[input_ids |-> [k \in 1..MaxSeq |-> IF k <= r THEN ids[k] ELSE 0],
      attention_mask |-> [k \in 1..MaxSeq |-> IF k <= r THEN 1 ELSE 0]] :
        r \in 0..MaxSeq, ids \in [1..MaxSeq -> RealIds]}

Artifacts == {"missing", "corrupt", "valid"}

(***************************************************************************)
(* State                                                                   *)
(***************************************************************************)
VARIABLES
    artifact,          \* what lies at model_path
    pc,                \* position of the script
    verify_result,     \* value returned by verify_model_properties()
    loaded,            \* models loaded by test_embedding_model
    i,                 \* loop index of enumerate(test_sentences, 1)
    encoded,           \* tokenizer output of the current sentence
    hf_args,           \* arguments of the call hf_model(...)
    hf_embedding,
    coreml_input,      \* argument of the call mlmodel.predict(...)
    coreml_embedding,
    max_diff,
    passed,
    all_passed,
    success,           \* value returned by test_embedding_model()
    exception,         \* uncaught exception, "none" if there is none
    exit_status,       \* -1 while the process runs
    log,               \* what the process has printed
    calls,             \* number of calls of the tokenizer and the pipelines
    pool_in,           \* input of the pooling functions
    pool_out           \* what each pooling implementation returned

vars == <<artifact, pc, verify_result, loaded, i, encoded, hf_args,
          hf_embedding, coreml_input, coreml_embedding, max_diff, passed,
          all_passed, success, exception, exit_status, log, calls,
          pool_in, pool_out>>

locals == <<encoded, hf_args, hf_embedding, coreml_input, coreml_embedding,
            max_diff, passed>>

poolVars == <<pool_in, pool_out>>

Line(kind, case) == [kind |-> kind, case |-> case]

NoCalls == [tokenizer |-> 0, hf_model |-> 0, predict |-> 0]

(***************************************************************************)
(* The validation script, test_models.py                                   *)
(***************************************************************************)
\* os.path.exists(model_path), in verify_model_properties
VerifyModelExists == artifact # "missing"

\* os.path.exists(model_path), in test_embedding_model
TestModelExistsAlways == TRUE
TestModelExists == artifact # "missing"

\* ct.models.MLModel(model_path) returns a model
MLModelLoadable == artifact = "valid"

\* an exception no handler catches: the interpreter prints the traceback
\* and the process ends with status 1
Uncaught(kind) ==
    /\ exception' = kind
    /\ exit_status' = 1
    /\ log' = Append(log, Line("Traceback", 0))
    /\ pc' = "exited"

\* hf_model(...) or mlmodel.predict(...) raises inside the loop body, which
\* has no try/except
OnPipelineErrorSkip(kind) ==
    /\ exception' = kind
    /\ pc' = "loop"
    /\ UNCHANGED <<exit_status, log>>
OnPipelineError(kind) == Uncaught(kind)

\* if not passed: all_passed = False
UpdateAllPassedLast(all, p) == p
UpdateAllPassed(all, p) == IF ~p THEN FALSE ELSE all

\* the dict handed to mlmodel.predict
CoremlInputNarrow(enc) ==
    [input_ids |-> [k \in 1..Len(enc.input_ids) |-> AsInt8(enc.input_ids[k])],
     attention_mask |->
         [k \in 1..Len(enc.attention_mask) |-> AsInt8(enc.attention_mask[k])]]
CoremlInput(enc) ==
    [input_ids |-> [k \in 1..Len(enc.input_ids) |-> AsInt32(enc.input_ids[k])],
     attention_mask |->
         [k \in 1..Len(enc.attention_mask) |-> AsInt32(enc.attention_mask[k])]]

\* exit(0 if success else 1)
ExitStatusZero(ok) == 0
ExitStatus(ok) == IF ok THEN 0 ELSE 1

ClearLocals ==
    /\ encoded' = None
    /\ hf_args' = None
    /\ hf_embedding' = None
    /\ coreml_input' = None
    /\ coreml_embedding' = None
    /\ max_diff' = None
    /\ passed' = None

Init ==
    /\ artifact \in Artifacts
    /\ pc = "main"
    /\ verify_result = None
    /\ loaded = {}
    /\ i = 0
    /\ encoded = None
    /\ hf_args = None
    /\ hf_embedding = None
    /\ coreml_input = None
    /\ coreml_embedding = None
    /\ max_diff = None
    /\ passed = None
    /\ all_passed = None
    /\ success = None
    /\ exception = "none"
    /\ exit_status = -1
    /\ log = <<>>
    /\ calls = NoCalls
    /\ pool_in = None
    /\ pool_out = None

\* verify_model_properties(); its value is dropped by the caller
VerifyModelProperties ==
    /\ pc = "main"
    /\ IF ~VerifyModelExists
       THEN /\ log' = Append(log, Line("NotFound", 0))
            /\ verify_result' = Some(FALSE)
            /\ pc' = "verified"
            /\ UNCHANGED <<exception, exit_status>>
       ELSE IF ~MLModelLoadable
       THEN /\ Uncaught("MLModel")
            /\ UNCHANGED verify_result
       ELSE /\ log' = Append(log, Line("Properties", 0))
            /\ verify_result' = Some(TRUE)
            /\ pc' = "verified"
            /\ UNCHANGED <<exception, exit_status>>
    /\ UNCHANGED <<artifact, loaded, i, locals, all_passed, success, calls,
                   poolVars>>

\* test_embedding_model(), up to the check of model_path
TestCheckExists ==
    /\ pc = "verified"
    /\ IF ~TestModelExists
       THEN /\ log' = Append(log, Line("NotFound", 0))
            /\ success' = Some(FALSE)
            /\ pc' = "returned"
       ELSE /\ pc' = "load"
            /\ UNCHANGED <<log, success>>
    /\ UNCHANGED <<artifact, verify_result, loaded, i, locals, all_passed,
                   exception, exit_status, calls, poolVars>>

\* loading of the Core ML model, the tokenizer and the HuggingFace model
LoadModels ==
    /\ pc = "load"
    /\ IF MLModelLoadable
       THEN /\ loaded' = {"mlmodel", "tokenizer", "hf_model"}
            /\ all_passed' = Some(TRUE)
            /\ pc' = "loop"
            /\ UNCHANGED <<exception, exit_status, log>>
       ELSE /\ Uncaught("MLModel")
            /\ UNCHANGED <<loaded, all_passed>>
    /\ UNCHANGED <<artifact, verify_result, i, locals, success, calls,
                   poolVars>>

\* for i, sentence in enumerate(test_sentences, 1), and the print of the
\* sentence.  The locals of the loop body are assigned again before they
\* are read: the model forgets them here.
LoopHead ==
    /\ pc = "loop"
    /\ IF i < NumSentences
       THEN /\ i' = i + 1
            /\ log' = Append(log, Line("Test", i + 1))
            /\ pc' = "tokenize"
       ELSE /\ pc' = "summary"
            /\ UNCHANGED <<i, log>>
    /\ ClearLocals
    /\ UNCHANGED <<artifact, verify_result, loaded, all_passed, success,
                   exception, exit_status, calls, poolVars>>

Tokenize ==
    /\ pc = "tokenize"
    /\ \E t \in Tokenizations : encoded' = Some(t)
    /\ calls' = [calls EXCEPT !.tokenizer = @ + 1]
    /\ pc' = "hf"
    /\ UNCHANGED <<artifact, verify_result, loaded, i, hf_args, hf_embedding,
                   coreml_input, coreml_embedding, max_diff, passed,
                   all_passed, success, exception, exit_status, log,
                   poolVars>>

\* the reference pipeline: hf_model, mean_pooling, normalize
HFInference ==
    /\ pc = "hf"
    /\ hf_args' = Some([input_ids |-> encoded[1].input_ids,
                        attention_mask |-> encoded[1].attention_mask])
    /\ calls' = [calls EXCEPT !.hf_model = @ + 1]
    /\ \/ /\ \E v \in HfOutputs : hf_embedding' = v
          /\ pc' = "coreml"
          /\ UNCHANGED <<exception, exit_status, log>>
       \/ /\ OnPipelineError("hf_model")
          /\ UNCHANGED hf_embedding
    /\ UNCHANGED <<artifact, verify_result, loaded, i, encoded, coreml_input,
                   coreml_embedding, max_diff, passed, all_passed, success,
                   poolVars>>

\* the candidate pipeline: mlmodel.predict
CoreMLPredict ==
    /\ pc = "coreml"
    /\ coreml_input' = Some(CoremlInput(encoded[1]))
    /\ calls' = [calls EXCEPT !.predict = @ + 1]
    /\ \/ /\ \E v \in CoremlOutputs : coreml_embedding' = v
          /\ pc' = "compare"
          /\ UNCHANGED <<exception, exit_status, log>>
       \/ /\ OnPipelineError("predict")
          /\ UNCHANGED coreml_embedding
    /\ UNCHANGED <<artifact, verify_result, loaded, i, encoded, hf_args,
                   hf_embedding, max_diff, passed, all_passed, success,
                   poolVars>>

\* the comparison, the report of the case and the update of all_passed
Compare ==
    /\ pc = "compare"
    /\ IF ~Broadcastable(Len(hf_embedding), Len(coreml_embedding))
       THEN /\ Uncaught("ValueError")
            /\ UNCHANGED <<max_diff, passed, all_passed>>
       ELSE LET m == NpMax(Diff(hf_embedding, coreml_embedding))
                p == Passed(m, Tolerance)
            IN  /\ max_diff' = Some(m)
                /\ passed' = Some(p)
                /\ log' = Append(log, Line(IF p THEN "PASS" ELSE "FAIL", i))
                /\ all_passed' = Some(UpdateAllPassed(all_passed[1], p))
                /\ pc' = "loop"
                /\ UNCHANGED <<exception, exit_status>>
    /\ UNCHANGED <<artifact, verify_result, loaded, i, encoded, hf_args,
                   hf_embedding, coreml_input, coreml_embedding, success,
                   calls, poolVars>>

\* the final banner and return all_passed
Summary ==
    /\ pc = "summary"
    /\ log' = Append(log, Line(IF all_passed[1] THEN "AllPassed"
                                                ELSE "SomeFailed", 0))
    /\ success' = all_passed
    /\ pc' = "returned"
    /\ UNCHANGED <<artifact, verify_result, loaded, i, locals, all_passed,
                   exception, exit_status, calls, poolVars>>

\* exit(0 if success else 1)
Exit ==
    /\ pc = "returned"
    /\ exit_status' = ExitStatus(success[1])
    /\ pc' = "exited"
    /\ UNCHANGED <<artifact, verify_result, loaded, i, locals, all_passed,
                   success, exception, log, calls, poolVars>>

Next ==
    \/ VerifyModelProperties
    \/ TestCheckExists
    \/ LoadModels
    \/ LoopHead
    \/ Tokenize
    \/ HFInference
    \/ CoreMLPredict
    \/ Compare
    \/ Summary
    \/ Exit

Spec == Init /\ [][Next]_vars

(***************************************************************************)
(* Mean pooling: mean_pooling of convert_embedding.py and test_models.py,  *)
(* and the pooling of SimplifiedEmbeddingModel.forward.  One hidden        *)
(* component per token.  A float is the pair <<whole, nano>>.              *)
(***************************************************************************)
Zero == <<0, 0>>

FloatLess(a, b) == a[1] < b[1] \/ (a[1] = b[1] /\ a[2] < b[2])

RECURSIVE SumTo(_, _)
SumTo(f, n) == IF n = 0 THEN 0 ELSE f[n] + SumTo(f, n - 1)

\* input_mask_expanded.sum(1)
MaskSum(mask) == <<SumTo(mask, Len(mask)), 0>>

\* torch.sum(token_embeddings * input_mask_expanded, 1)
WeightedSum(tok, mask) == SumTo([k \in 1..Len(tok) |-> tok[k] * mask[k]], Len(tok))

\* torch.clamp(x, min=1e-9)
ClampMissing(x) == x
Clamp(x) == IF FloatLess(x, <<0, ClampMinNano>>) THEN <<0, ClampMinNano>> ELSE x

\* division of float tensors: never raises, a zero divisor gives nan or inf
TorchDiv(s, d) ==
    [kind |-> IF d # Zero THEN "finite" ELSE IF s = 0 THEN "nan" ELSE "inf",
     num |-> s, den |-> d]

\* convert_embedding.py
MeanPoolingConvert(tok, mask) ==
    TorchDiv(WeightedSum(tok, mask), Clamp(MaskSum(mask)))

\* test_models.py
MeanPoolingTest(tok, mask) ==
    TorchDiv(WeightedSum(tok, mask), Clamp(MaskSum(mask)))

\* convert_embedding_simple.py, SimplifiedEmbeddingModel.forward
ForwardPooling(tok, mask) ==
    LET sum_embeddings == WeightedSum(tok, mask)
        sum_mask == Clamp(MaskSum(mask))
    IN  TorchDiv(sum_embeddings, sum_mask)

TokenValues == {-1, 0, 1}

PoolInputs ==
    [token_embeddings : [1..MaxSeq -> TokenValues],
     attention_mask : [1..MaxSeq -> {0, 1}]]

Implementations == {"convert", "test", "simple"}

PoolInit ==
    /\ artifact = "missing"
    /\ pc = "pool"
    /\ verify_result = None
    /\ loaded = {}
    /\ i = 0
    /\ encoded = None
    /\ hf_args = None
    /\ hf_embedding = None
    /\ coreml_input = None
    /\ coreml_embedding = None
    /\ max_diff = None
    /\ passed = None
    /\ all_passed = None
    /\ success = None
    /\ exception = "none"
    /\ exit_status = -1
    /\ log = <<>>
    /\ calls = NoCalls
    /\ \E x \in PoolInputs : pool_in = Some(x)
    /\ pool_out = [impl \in Implementations |-> None]

mainVars == <<artifact, pc, verify_result, loaded, i, locals, all_passed,
              success, exception, exit_status, log, calls>>

PoolConvert ==
    /\ pc = "pool"
    /\ pool_out["convert"] = None
    /\ pool_out' = [pool_out EXCEPT !["convert"] =
           Some(MeanPoolingConvert(pool_in[1].token_embeddings,
                                   pool_in[1].attention_mask))]
    /\ UNCHANGED <<mainVars, pool_in>>

PoolTest ==
    /\ pc = "pool"
    /\ pool_out["test"] = None
    /\ pool_out' = [pool_out EXCEPT !["test"] =
           Some(MeanPoolingTest(pool_in[1].token_embeddings,
                                pool_in[1].attention_mask))]
    /\ UNCHANGED <<mainVars, pool_in>>

PoolSimple ==
    /\ pc = "pool"
    /\ pool_out["simple"] = None
    /\ pool_out' = [pool_out EXCEPT !["simple"] =
           Some(ForwardPooling(pool_in[1].token_embeddings,
                               pool_in[1].attention_mask))]
    /\ UNCHANGED <<mainVars, pool_in>>

PoolNext ==
    \/ PoolConvert
    \/ PoolTest
    \/ PoolSimple

PoolSpec == PoolInit /\ [][PoolNext]_vars

(***************************************************************************)
(* Properties                                                              *)
(***************************************************************************)
IsVerdict(e) == e.kind \in {"PASS", "FAIL"}
IsSummary(e) == e.kind \in {"AllPassed", "SomeFailed"}

\* the per-case verdicts printed so far, in order
Verdicts == SelectSeq(log, IsVerdict)

AllPass(v) == \A k \in 1..Len(v) : v[k].kind = "PASS"

Compared == passed # None

\* C1: while the loop runs all_passed is the conjunction of the verdicts of
\* the cases compared so far, and the value test_embedding_model returns
\* after its NumSentences cases is True iff every case passed; a pass after
\* a failure does not set it back to True.
C1_VerdictIsConjunction ==
    /\ all_passed # None /\ pc \in {"loop", "summary"} =>
           all_passed[1] = AllPass(Verdicts)
    /\ success # None /\ loaded # {} =>
           /\ Len(Verdicts) = NumSentences
           /\ success[1] = AllPass(Verdicts)

C1_Witness ==
    /\ pc = "returned"
    /\ Len(Verdicts) = NumSentences
    /\ Verdicts[1].kind = "FAIL"
    /\ Verdicts[NumSentences].kind = "PASS"
    /\ success = Some(FALSE)

\* C2: when the two embeddings of a case have equal length, max_diff is the
\* largest element-wise absolute difference and the case passes iff
\* max_diff < Tolerance, strictly: max_diff = Tolerance or more fails.
C2_StrictTolerance ==
    Compared /\ Len(hf_embedding) = Len(coreml_embedding) =>
        LET d == [k \in 1..Len(hf_embedding) |->
                     AbsDiff(hf_embedding[k], coreml_embedding[k])]
            m == max_diff[1]
        IN  /\ m.nan <=> \E k \in 1..Len(d) : d[k].nan
            /\ ~m.nan => /\ \E k \in 1..Len(d) : d[k] = m
                         /\ \A k \in 1..Len(d) : d[k].v <= m.v
            /\ passed[1] <=> (~m.nan /\ m.v < Tolerance)
            /\ ~m.nan /\ m.v >= Tolerance => ~passed[1]
            /\ log[Len(log)] = Line(IF passed[1] THEN "PASS" ELSE "FAIL", i)

C2_Witness ==
    /\ Compared
    /\ Len(hf_embedding) = Len(coreml_embedding)
    /\ max_diff = Some(F(Tolerance))
    /\ passed = Some(FALSE)

\* C3: the exit status is 0 iff all NumSentences cases passed, it is not 0
\* when a case failed or the artifact is missing, and it is decided by the
\* value of test_embedding_model alone, whatever verify_model_properties
\* returned.
C3_ExitStatus ==
    pc = "exited" =>
        /\ exit_status = 0 <=>
               (Len(Verdicts) = NumSentences /\ AllPass(Verdicts))
        /\ ~AllPass(Verdicts) => exit_status # 0
        /\ artifact = "missing" => exit_status # 0
        /\ exception = "none" =>
               /\ success # None
               /\ exit_status = (IF success[1] THEN 0 ELSE 1)

C3_Witness ==
    /\ pc = "exited"
    /\ verify_result = Some(TRUE)
    /\ ~AllPass(Verdicts)
    /\ exception = "none"
    /\ exit_status = 1

\* C4: with the artifact missing, test_embedding_model returns False and
\* nothing was loaded, tokenized or run through a pipeline.
C4_MissingArtifactAborts ==
    artifact = "missing" =>
        /\ loaded = {}
        /\ calls = NoCalls
        /\ i = 0
        /\ Verdicts = <<>>
        /\ exception = "none"
        /\ pc \in {"returned", "exited"} =>
               /\ success = Some(FALSE)
               /\ log[Len(log)] = Line("NotFound", 0)

C4_Witness ==
    /\ artifact = "missing"
    /\ pc = "returned"
    /\ success = Some(FALSE)

\* the comparison of the current case has acted on embeddings of different
\* lengths
LengthMismatch ==
    /\ hf_embedding # None
    /\ coreml_embedding # None
    /\ Len(hf_embedding) # Len(coreml_embedding)
    /\ pc # "compare"

\* C5: a case whose candidate embedding has another length than the
\* reference embedding is reported as a ShapeMismatch failure, counts as
\* failed, and the run goes on with the remaining cases.
C5_ShapeMismatchReported ==
    LengthMismatch =>
        /\ exception = "none"
        /\ pc = "loop"
        /\ log[Len(log)] = Line("ShapeMismatch", i)
        /\ all_passed = Some(FALSE)

AllFinite(vec) == \A k \in 1..Len(vec) : ~vec[k].nan

\* C6 as stated: identical vectors give max_diff = 0 and pass for every
\* tolerance >= 0, tolerance = 0 included.
C6_IdenticalPassAnyTolerance ==
    Compared /\ hf_embedding = coreml_embedding =>
        /\ max_diff = Some(F(0))
        /\ passed = Some(TRUE)
        /\ \A t \in 0..(Tolerance + 1) :
               Passed(NpMax(Diff(hf_embedding, coreml_embedding)), t)

\* C6 as amended: identical vectors of finite numbers give max_diff = 0 and
\* pass for every tolerance > 0.
C6_IdenticalFinitePass ==
    Compared /\ hf_embedding = coreml_embedding /\ AllFinite(hf_embedding) =>
        /\ max_diff = Some(F(0))
        /\ passed = Some(TRUE)
        /\ \A t \in 1..(Tolerance + 1) :
               Passed(NpMax(Diff(hf_embedding, coreml_embedding)), t)

C6_Witness ==
    /\ Compared
    /\ hf_embedding = coreml_embedding
    /\ hf_embedding[1] = F(1)
    /\ AllFinite(hf_embedding)
    /\ passed = Some(TRUE)

\* the report of a run that compared every case: for each case its header
\* then its verdict, in list order, then one summary
FullReport(l) ==
    /\ Len(l) = 2 * NumSentences + 1
    /\ \A k \in 1..NumSentences :
           /\ l[2 * k - 1] = Line("Test", k)
           /\ IsVerdict(l[2 * k]) /\ l[2 * k].case = k
    /\ IsSummary(l[Len(l)])

\* C7: in every run where the artifact exists and no pipeline raises, all
\* NumSentences cases are compared one after another in list order,
\* however many fail, and the summary is printed once, after the last case.
C7_AllComparedThenSummary ==
    /\ pc = "exited"
    /\ artifact = "valid"
    /\ exception \notin {"hf_model", "predict"}
    => FullReport(SubSeq(log, 2, Len(log)))

\* C8: when a pipeline raises during case i the run aborts: the process
\* ends with a status other than 0, no verdict is returned, no later case
\* is started, and the last thing printed before the traceback is the
\* header of case i.
C8_PipelineErrorAborts ==
    exception \in {"hf_model", "predict"} =>
        /\ pc = "exited"
        /\ exit_status = 1
        /\ success = None
        /\ calls.tokenizer = i
        /\ Len(Verdicts) = i - 1
        /\ Len(log) >= 2
        /\ log[Len(log)] = Line("Traceback", 0)
        /\ log[Len(log) - 1] = Line("Test", i)
        /\ \A k \in 1..Len(log) : ~IsSummary(log[k])

C8_Witness ==
    /\ exception = "predict"
    /\ i = 2
    /\ pc = "exited"

Ones(mask) == Cardinality({k \in 1..Len(mask) : mask[k] = 1})

\* C9: in the three implementations the pooling divisor is the number of
\* mask = 1 positions, or 1e-9 when there is none; it is never zero and the
\* division gives neither nan nor inf, an all-padding input included.
C9_DivisorFloored ==
    \A impl \in Implementations :
        pool_out[impl] # None =>
            LET n == Ones(pool_in[1].attention_mask)
                r == pool_out[impl][1]
            IN  /\ r.den # Zero
                /\ r.den = (IF n = 0 THEN <<0, ClampMinNano>> ELSE <<n, 0>>)
                /\ r.kind = "finite"

C9_Witness ==
    /\ Ones(pool_in[1].attention_mask) = 0
    /\ \A impl \in Implementations : pool_out[impl] # None

\* C10: the candidate pipeline is called with the token ids and the
\* attention mask the reference pipeline was called with, both taken from
\* the one tokenization of the case's sentence.
C10_SameTokenizedInput ==
    /\ hf_args # None => hf_args[1] = encoded[1]
    /\ coreml_input # None =>
           /\ coreml_input[1].input_ids = hf_args[1].input_ids
           /\ coreml_input[1].attention_mask = hf_args[1].attention_mask
           /\ coreml_input[1] = encoded[1]
           /\ calls.tokenizer = i
           /\ calls.hf_model = i
           /\ calls.predict = i

C10_Witness ==
    /\ pc = "compare"
    /\ coreml_input # None
    /\ coreml_input[1].input_ids[1] = VocabSize - 1
    /\ coreml_input[1].attention_mask = [k \in 1..MaxSeq |-> 1]
====
